---- MODULE Spec2Model ----
(***************************************************************************)
(* A model of the three teaching scripts of design-patterns-javascript:    *)
(* the Rectangle/Square pair with stretch (Liskov substitution), the       *)
(* Journal with its PersistenceManager (single responsibility) and the     *)
(* product filters (open/closed).                                          *)
(***************************************************************************)
EXTENDS Integers, Sequences, FiniteSets, TLC

VARIABLES
  rect,      \* the shape object the statements act on: [cls, width, height]
  out,       \* the lines the statement just executed wrote to the console
  call,      \* the statement just executed: [op, this, arg]
  journal,   \* the Journal object: [count, entries]
  disk,      \* the file ./journal.txt: [exists, data]
  fsCalls,   \* the fs.writeFileSync calls made so far: [file, data, ok]
  pc,        \* position of the journal script
  products,  \* the product list handed to the filters
  result     \* the list the latest filter call returned

vars == <<rect, out, call, journal, disk, fsCalls, pc, products, result>>

shapeVars == <<rect>>
journalVars == <<journal, disk, fsCalls, pc>>
filterVars == <<products, result>>

\* Largest side drawn for a constructor or setter argument.
MaxSide == 3

----------------------------------------------------------------------------
(* JavaScript values: numbers, NaN and undefined.                          *)

Num(n) == [kind |-> "number", n |-> n]
Undefined == [kind |-> "undefined", n |-> 0]
NaN == [kind |-> "NaN", n |-> 0]

\* a * b: undefined converts to NaN, and NaN times anything is NaN
JSMul(a, b) ==
  IF a.kind = "number" /\ b.kind = "number" THEN Num(a.n * b.n) ELSE NaN

Digit(d) ==
  CASE d = 0 -> "0" [] d = 1 -> "1" [] d = 2 -> "2" [] d = 3 -> "3"
    [] d = 4 -> "4" [] d = 5 -> "5" [] d = 6 -> "6" [] d = 7 -> "7"
    [] d = 8 -> "8" [] d = 9 -> "9"

RECURSIVE NatToStr(_)
NatToStr(n) ==
  IF n < 10 THEN Digit(n) ELSE NatToStr(n \div 10) \o Digit(n % 10)

\* `${v}` in a template literal
ToStr(v) ==
  CASE v.kind = "number" -> NatToStr(v.n)
    [] v.kind = "NaN" -> "NaN"
    [] v.kind = "undefined" -> "undefined"

----------------------------------------------------------------------------
(* Rectangle and Square.                                                   *)

Rectangle(width, height) ==
  [cls |-> "Rectangle", width |-> width, height |-> height]

Square(size) == [Rectangle(size, size) EXCEPT !.cls = "Square"]

area(this) == JSMul(this.width, this.height)

toString(this) == ToStr(this.width) \o "x" \o ToStr(this.height)

Rectangle_setWidth(this, value) == [this EXCEPT !.width = value]

Rectangle_setHeight(this, value) == [this EXCEPT !.height = value]

\* mutant: the Square setter sets the one side only
Square_setWidth_Uncoupled(this, value) == [this EXCEPT !.width = value]

\* one function object, installed as both setWidth and setHeight of Square
Square_setWidth(this, value) == [this EXCEPT !.width = value, !.height = value]

\* mutant: setHeight is not overridden for Square
Square_setHeight_Uncoupled(this, value) == [this EXCEPT !.height = value]

Square_setHeight(this, value) == Square_setWidth(this, value)

\* the prototype chain: Square.prototype shadows Rectangle.prototype
setWidth(this, value) ==
  IF this.cls = "Square" THEN Square_setWidth(this, value)
  ELSE Rectangle_setWidth(this, value)

setHeight(this, value) ==
  IF this.cls = "Square" THEN Square_setHeight(this, value)
  ELSE Rectangle_setHeight(this, value)

\* mutant: the new height is computed from the width
stretch_FromWidth(r) ==
  LET originalArea == area(r)
      r1 == setWidth(r, JSMul(r.width, Num(2)))
      r2 == setHeight(r1, JSMul(r1.width, Num(2)))
  IN  [rect |-> r2,
       out |-> << "Before stretching, area is: " \o ToStr(originalArea),
                  "Expected area: " \o ToStr(JSMul(Num(4), originalArea)),
                  "Actual area: " \o ToStr(area(r2)) >>]

\* stretch(rect): the object after the call and the three lines printed
stretch(r) ==
  LET originalArea == area(r)
      r1 == setWidth(r, JSMul(r.width, Num(2)))
      r2 == setHeight(r1, JSMul(r1.height, Num(2)))
  IN  [rect |-> r2,
       out |-> << "Before stretching, area is: " \o ToStr(originalArea),
                  "Expected area: " \o ToStr(JSMul(Num(4), originalArea)),
                  "Actual area: " \o ToStr(area(r2)) >>]

----------------------------------------------------------------------------
(* The statements of the shapes script, with their literals drawn from     *)
(* Sides.                                                                  *)

\* the literals of the script: Rectangle(10, 20), Square(5), Rectangle(11, 5)
ScriptSides == {5, 10, 11, 20}

Sides == (0 .. MaxSide) \cup ScriptSides

SideValues == {Num(n) : n \in Sides}

Stmt(op, this, arg) == [op |-> op, this |-> this, arg |-> arg]

NoObject == Rectangle(Undefined, Undefined)

\* the variables of the other two scripts, which the shapes script never touches
IdleJournal ==
  /\ journal = [count |-> 0, entries |-> << >>]
  /\ disk = [exists |-> FALSE, data |-> ""]
  /\ fsCalls = << >>
  /\ pc = "idle"

IdleFilter == products = << >> /\ result = << >>

IdleShapes == rect = NoObject

InitShapes ==
  /\ rect = NoObject
  /\ out = << >>
  /\ call = Stmt("start", NoObject, Undefined)
  /\ IdleJournal
  /\ IdleFilter

NewRectangle(w, h) ==
  /\ rect' = Rectangle(w, h)
  /\ out' = << >>
  /\ call' = Stmt("new Rectangle", NoObject, <<w, h>>)
  /\ UNCHANGED <<journalVars, filterVars>>

NewSquare(size) ==
  /\ rect' = Square(size)
  /\ out' = << >>
  /\ call' = Stmt("new Square", NoObject, size)
  /\ UNCHANGED <<journalVars, filterVars>>

Constructed == call.op # "start"

\* mutant: the assignment goes through the setter
AssignWidth_ThroughSetter(v) ==
  /\ Constructed
  /\ rect' = setWidth(rect, v)
  /\ out' = << >>
  /\ call' = Stmt("width =", rect, v)
  /\ UNCHANGED <<journalVars, filterVars>>

\* sq.width = 10
AssignWidth(v) ==
  /\ Constructed
  /\ rect' = [rect EXCEPT !.width = v]
  /\ out' = << >>
  /\ call' = Stmt("width =", rect, v)
  /\ UNCHANGED <<journalVars, filterVars>>

SetWidth(v) ==
  /\ Constructed
  /\ rect' = setWidth(rect, v)
  /\ out' = << >>
  /\ call' = Stmt("setWidth", rect, v)
  /\ UNCHANGED <<journalVars, filterVars>>

SetHeight(v) ==
  /\ Constructed
  /\ rect' = setHeight(rect, v)
  /\ out' = << >>
  /\ call' = Stmt("setHeight", rect, v)
  /\ UNCHANGED <<journalVars, filterVars>>

\* console.log(rc.toString())
LogToString ==
  /\ Constructed
  /\ out' = << toString(rect) >>
  /\ call' = Stmt("toString", rect, Undefined)
  /\ UNCHANGED <<rect, journalVars, filterVars>>

\* console.log(sq2.area)
LogArea ==
  /\ Constructed
  /\ out' = << ToStr(area(rect)) >>
  /\ call' = Stmt("area", rect, Undefined)
  /\ UNCHANGED <<rect, journalVars, filterVars>>

Fresh(v) == v \in SideValues \cup {Undefined}

\* stretch(rect2), stretch(sq3): applied to objects not stretched before
Stretch ==
  /\ Constructed
  /\ Fresh(rect.width) /\ Fresh(rect.height)
  /\ rect' = stretch(rect).rect
  /\ out' = stretch(rect).out
  /\ call' = Stmt("stretch", rect, Undefined)
  /\ UNCHANGED <<journalVars, filterVars>>

NextShapes ==
  \/ \E w, h \in SideValues : NewRectangle(w, h)
  \/ \E size \in SideValues \cup {Undefined} : NewSquare(size)
  \/ \E v \in SideValues : AssignWidth(v)
  \/ \E v \in SideValues : SetWidth(v)
  \/ \E v \in SideValues : SetHeight(v)
  \/ LogToString
  \/ LogArea
  \/ Stretch

SpecShapes == InitShapes /\ [][NextShapes]_vars

\* let sq2 = new Square(); sq2.setWidth(10); console.log(sq2.area):
\* a Square acted on through its setters only
InitSquare ==
  /\ \E size \in SideValues \cup {Undefined} :
       /\ rect = Square(size)
       /\ call = Stmt("new Square", NoObject, size)
  /\ out = << >>
  /\ IdleJournal
  /\ IdleFilter

NextSquare ==
  \/ \E v \in SideValues : SetWidth(v)
  \/ \E v \in SideValues : SetHeight(v)
  \/ LogArea

SpecSquare == InitSquare /\ [][NextSquare]_vars

----------------------------------------------------------------------------
(* Journal and PersistenceManager.                                         *)

\* Largest number of addEntry calls in one run.
MaxEntries == 2

\* new Journal()
Journal == [count |-> 0, entries |-> << >>]

\* addEntry(text): the journal after the call and the value returned
addEntry(this, text) ==
  LET c == this.count + 1
      entry == NatToStr(c) \o ": " \o text
  IN  [this |-> [count |-> c,
                 entries |-> [k \in DOMAIN this.entries \cup {c} |->
                                IF k = c THEN entry ELSE this.entries[k]]],
       ret |-> c]

\* removeEntry(index): delete this.entries[index]
removeEntry(this, index) ==
  [this EXCEPT !.entries = [k \in DOMAIN @ \ {index} |-> @[k]]]

\* Object.values(obj): the values of the integer keys, in ascending key order
RECURSIVE ObjectValues(_)
ObjectValues(obj) ==
  IF DOMAIN obj = {} THEN << >>
  ELSE LET k == CHOOSE x \in DOMAIN obj : \A y \in DOMAIN obj : x <= y
       IN  << obj[k] >> \o ObjectValues([j \in DOMAIN obj \ {k} |-> obj[j]])

\* Array.prototype.join(sep)
RECURSIVE Join(_, _)
Join(seq, sep) ==
  IF Len(seq) = 0 THEN ""
  ELSE IF Len(seq) = 1 THEN seq[1]
  ELSE seq[1] \o sep \o Join(Tail(seq), sep)

Journal_toString(this) == Join(ObjectValues(this.entries), "\n")

\* fs.writeFileSync(file, data): the file afterwards.  It opens the file for
\* writing, which truncates it, writes data and closes it; it throws when the
\* open fails (the file is left as it was) or when the write fails (the file
\* is left truncated).
Outcomes == {"ok", "open failed", "write failed"}

\* mutant: the data is appended to the file
writeFileSync_Append(d, data, outcome) ==
  CASE outcome = "ok" -> [exists |-> TRUE, data |-> d.data \o data]
    [] outcome = "open failed" -> d
    [] outcome = "write failed" -> d

writeFileSync(d, data, outcome) ==
  CASE outcome = "ok" -> [exists |-> TRUE, data |-> data]
    [] outcome = "open failed" -> d
    [] outcome = "write failed" -> [exists |-> TRUE, data |-> ""]

\* the literals of the script
FileName == "./journal.txt"

Texts == {"Today was a great day!", "I made a new friend today"}

InitJournal ==
  /\ journal = Journal
  /\ disk \in {[exists |-> FALSE, data |-> ""], [exists |-> TRUE, data |-> "stale"]}
  /\ fsCalls = << >>
  /\ pc = "entries"
  /\ out = << >>
  /\ call = Stmt("new Journal", Journal, Undefined)
  /\ IdleShapes
  /\ IdleFilter

\* journal.addEntry('Today was a great day!')
AddEntry(text) ==
  /\ pc = "entries"
  /\ journal.count < MaxEntries
  /\ journal' = addEntry(journal, text).this
  /\ out' = << >>
  /\ call' = Stmt("addEntry", journal, text)
  /\ UNCHANGED <<disk, fsCalls, pc, shapeVars, filterVars>>

RemoveEntry(index) ==
  /\ pc = "entries"
  /\ journal' = removeEntry(journal, index)
  /\ out' = << >>
  /\ call' = Stmt("removeEntry", journal, index)
  /\ UNCHANGED <<disk, fsCalls, pc, shapeVars, filterVars>>

\* console.log(journal.toString())
LogJournal ==
  /\ pc = "entries"
  /\ pc' = "printed"
  /\ out' = << Journal_toString(journal) >>
  /\ call' = Stmt("toString", journal, Undefined)
  /\ UNCHANGED <<journal, disk, fsCalls, shapeVars, filterVars>>

\* mutant: saveToFile catches the exception of writeFileSync
SaveToFile_Catches(fileName, outcome) ==
  /\ pc = "printed"
  /\ LET data == Journal_toString(journal)
     IN  /\ fsCalls' = Append(fsCalls, [file |-> fileName, data |-> data,
                                        ok |-> outcome = "ok"])
         /\ disk' = writeFileSync(disk, data, outcome)
  /\ pc' = "saved"
  /\ out' = << >>
  /\ call' = Stmt("saveToFile", journal, fileName)
  /\ UNCHANGED <<journal, shapeVars, filterVars>>

\* persistenceManager.saveToFile(journal, fileName), the script's last
\* statement: an exception thrown by writeFileSync is not caught
SaveToFile(fileName, outcome) ==
  /\ pc = "printed"
  /\ LET data == Journal_toString(journal)
     IN  /\ fsCalls' = Append(fsCalls, [file |-> fileName, data |-> data,
                                        ok |-> outcome = "ok"])
         /\ disk' = writeFileSync(disk, data, outcome)
  /\ pc' = IF outcome = "ok" THEN "saved" ELSE "error"
  /\ out' = << >>
  /\ call' = Stmt("saveToFile", journal, fileName)
  /\ UNCHANGED <<journal, shapeVars, filterVars>>

NextJournal ==
  \/ \E text \in Texts : AddEntry(text)
  \/ \E index \in 1 .. MaxEntries : RemoveEntry(index)
  \/ LogJournal
  \/ \E outcome \in Outcomes : SaveToFile(FileName, outcome)

SpecJournal == InitJournal /\ [][NextJournal]_vars

----------------------------------------------------------------------------
(* Products, the ad-hoc ProductFilter and the specification-based Filter2. *)

\* Longest product list drawn besides the script's own.
MaxProducts == 2

Product(name, color, size) == [name |-> name, color |-> color, size |-> size]

Color == {"red", "green", "blue"}

Size == {"small", "medium", "large"}

book == Product("Book", "red", "small")
laptop == Product("laptop", "blue", "medium")
surfboard == Product("Surfboard", "green", "large")

\* let products = [book, laptop, surfboard]
ScriptProducts == << book, laptop, surfboard >>

\* Array.prototype.filter: visits the indices in ascending order and appends
\* the elements the callback accepts to a new array; arr is the receiver
\* afterwards.  The callback is given as a function on the elements of arr.
ArrayFilter(arr, callback) ==
  LET F[i \in 0 .. Len(arr)] ==
        IF i = 0 THEN << >>
        ELSE IF callback[arr[i]] THEN Append(F[i - 1], arr[i]) ELSE F[i - 1]
  IN  [ret |-> F[Len(arr)], arr |-> arr]

Elements(arr) == {arr[i] : i \in 1 .. Len(arr)}

filterByColor(items, color) ==
  ArrayFilter(items, [p \in Elements(items) |-> p.color = color])

\* mutant: filterBySize copied from filterByColor with the field left as it was
filterBySize_ByColor(items, size) ==
  ArrayFilter(items, [p \in Elements(items) |-> p.color = size])

filterBySize(items, size) ==
  ArrayFilter(items, [p \in Elements(items) |-> p.size = size])

ColorSpecification(color) == [cls |-> "ColorSpecification", color |-> color]

SizeSpecification(size) == [cls |-> "SizeSpecification", size |-> size]

\* mutant: the color specification reads the item's size
ColorSpecification_isSatisfied_BySize(this, item) == item.size = this.color

ColorSpecification_isSatisfied(this, item) == item.color = this.color

SizeSpecification_isSatisfied(this, item) == item.size = this.size

\* spec.isSatisfied(item): the method of the specification's own class
isSatisfied(spec, item) ==
  IF spec.cls = "ColorSpecification" THEN ColorSpecification_isSatisfied(spec, item)
  ELSE SizeSpecification_isSatisfied(spec, item)

Filter2_filter(items, spec) ==
  ArrayFilter(items, [item \in Elements(items) |-> isSatisfied(spec, item)])

Names == {"Book", "laptop", "Surfboard"}

Catalog == {Product(n, c, s) : n \in Names, c \in Color, s \in Size}

RECURSIVE ListsUpTo(_)
ListsUpTo(n) ==
  IF n = 0 THEN {<< >>}
  ELSE LET shorter == ListsUpTo(n - 1)
       IN  shorter \cup {Append(l, p) : l \in {x \in shorter : Len(x) = n - 1},
                                        p \in Catalog}

Specifications ==
  {ColorSpecification(c) : c \in Color} \cup {SizeSpecification(z) : z \in Size}

InitFilter ==
  /\ products \in ListsUpTo(MaxProducts) \cup {ScriptProducts}
  /\ result = << >>
  /\ out = << >>
  /\ call = Stmt("start", << >>, Undefined)
  /\ IdleShapes
  /\ IdleJournal

\* productFilter.filterByColor(products, Color.red)
FilterByColor(color) ==
  /\ result' = filterByColor(products, color).ret
  /\ products' = filterByColor(products, color).arr
  /\ out' = << >>
  /\ call' = Stmt("filterByColor", products, color)
  /\ UNCHANGED <<shapeVars, journalVars>>

FilterBySize(size) ==
  /\ result' = filterBySize(products, size).ret
  /\ products' = filterBySize(products, size).arr
  /\ out' = << >>
  /\ call' = Stmt("filterBySize", products, size)
  /\ UNCHANGED <<shapeVars, journalVars>>

\* filter2.filter(products, greenColorSpec)
Filter2(spec) ==
  /\ result' = Filter2_filter(products, spec).ret
  /\ products' = Filter2_filter(products, spec).arr
  /\ out' = << >>
  /\ call' = Stmt("filter", products, spec)
  /\ UNCHANGED <<shapeVars, journalVars>>

NextFilter ==
  \/ \E color \in Color : FilterByColor(color)
  \/ \E size \in Size : FilterBySize(size)
  \/ \E spec \in Specifications : Filter2(spec)

SpecFilter == InitFilter /\ [][NextFilter]_vars

----------------------------------------------------------------------------
(* The properties checked.                                                 *)

IsNumber(v) == v.kind = "number"

\* C1: stretch applied to a Square of side s (width = height = s, Square
\* setters installed) leaves both sides at 4*s and prints an expected area
\* of 4*s*s and an actual area of 16*s*s, four times the expected one; for
\* s = 10 it prints "Expected area: 400" and "Actual area: 1600".
C1_SquareStretchQuadruples ==
  (/\ call.op = "stretch"
   /\ call.this.cls = "Square"
   /\ IsNumber(call.this.width)
   /\ call.this.height = call.this.width)
  => LET s == call.this.width.n
     IN  /\ rect = Square(Num(4 * s))
         /\ rect.width.n * rect.height.n = 4 * (4 * s * s)
         /\ out = << "Before stretching, area is: " \o NatToStr(s * s),
                     "Expected area: " \o NatToStr(4 * s * s),
                     "Actual area: " \o NatToStr(16 * s * s) >>
         /\ (s = 10 => /\ out[2] = "Expected area: 400"
                       /\ out[3] = "Actual area: 1600")

C1_Witness ==
  /\ call.op = "stretch"
  /\ call.this = Square(Num(10))
  /\ rect = Square(Num(40))
  /\ out[3] = "Actual area: 1600"

\* C2: stretch applied to a plain Rectangle of width w and height h leaves
\* width = 2*w and height = 2*h, and the actual area printed equals the
\* expected area 4*w*h; for 11x5 both are 220.
C2_RectangleStretchDoubles ==
  (/\ call.op = "stretch"
   /\ call.this.cls = "Rectangle"
   /\ IsNumber(call.this.width)
   /\ IsNumber(call.this.height))
  => LET w == call.this.width.n
         h == call.this.height.n
     IN  /\ rect = Rectangle(Num(2 * w), Num(2 * h))
         /\ out[2] = "Expected area: " \o NatToStr(4 * w * h)
         /\ out[3] = "Actual area: " \o NatToStr(4 * w * h)
         /\ (w = 11 /\ h = 5 => /\ out[2] = "Expected area: 220"
                                /\ out[3] = "Actual area: 220")

C2_Witness ==
  /\ call.op = "stretch"
  /\ call.this = Rectangle(Num(11), Num(5))
  /\ rect = Rectangle(Num(22), Num(10))
  /\ out[3] = "Actual area: 220"

\* C3: in every state reached from new Square(size) or new Square() by
\* setWidth and setHeight calls, width = height; after either call both equal
\* the value passed; new Square() followed by setWidth(10) has area 100.
C3_SquareSidesEqual ==
  /\ rect.cls = "Square"
  /\ rect.width = rect.height
  /\ (call.op \in {"setWidth", "setHeight"}
        => rect.width = call.arg /\ rect.height = call.arg)
  /\ (call.op = "setWidth" /\ call.this = Square(Undefined) /\ call.arg = Num(10)
        => rect.width.n * rect.height.n = 100)
  /\ (call.op = "area" /\ rect.width = Num(10) => out = << "100" >>)

C3_Witness ==
  /\ call.op = "setHeight"
  /\ call.this = Square(Undefined)
  /\ call.arg = Num(10)
  /\ rect = Square(Num(10))

\* C4: toString prints "<width>x<height>" of the current fields and changes
\* nothing (Rectangle(10, 20) prints "10x20", Square(5) prints "5x5"); a
\* direct assignment to width changes width only, so Square(5) after
\* width = 10 prints "10x5".
C4_ToStringAndWidthAssignment ==
  /\ (call.op = "toString"
        => /\ out = << ToStr(rect.width) \o "x" \o ToStr(rect.height) >>
           /\ rect = call.this)
  /\ (call.op = "toString" /\ rect = Rectangle(Num(10), Num(20))
        => out = << "10x20" >>)
  /\ (call.op = "toString" /\ rect = Square(Num(5)) => out = << "5x5" >>)
  /\ (call.op = "width ="
        => rect = [cls |-> call.this.cls, width |-> call.arg,
                   height |-> call.this.height])
  /\ (call.op = "toString" /\ rect = [Square(Num(5)) EXCEPT !.width = Num(10)]
        => out = << "10x5" >>)

C4_Witness ==
  /\ call.op = "toString"
  /\ rect = [cls |-> "Square", width |-> Num(10), height |-> Num(5)]
  /\ out = << "10x5" >>

\* the k-th smallest member of a set of indices
KthIndex(S, k) == CHOOSE i \in S : Cardinality({j \in S : j <= i}) = k

\* res holds the elements of items at the indices in idx, in index order
HoldsExactly(res, items, idx) ==
  /\ Len(res) = Cardinality(idx)
  /\ \A k \in 1 .. Len(res) : res[k] = items[KthIndex(idx, k)]

\* C5: filterByColor returns exactly the products whose color equals the
\* given color, in their original order, each as often as it occurs in the
\* input, and leaves the input list unchanged; filterBySize does the same for
\* size; filtering [Book, laptop, Surfboard] by red yields only Book.
C5_FilterReturnsExactlyTheMatches ==
  /\ (call.op = "filterByColor"
        => /\ products = call.this
           /\ HoldsExactly(result, call.this,
                {i \in 1 .. Len(call.this) : call.this[i].color = call.arg}))
  /\ (call.op = "filterBySize"
        => /\ products = call.this
           /\ HoldsExactly(result, call.this,
                {i \in 1 .. Len(call.this) : call.this[i].size = call.arg}))
  /\ (call.op = "filterByColor" /\ call.this = ScriptProducts /\ call.arg = "red"
        => result = << book >>)

C5_Witness ==
  /\ call.op = "filterByColor"
  /\ call.this = ScriptProducts
  /\ call.arg = "red"
  /\ result = << book >>

\* C6: a saveToFile that returns has made exactly one writeFileSync call, for
\* ./journal.txt, with the journal's toString() as the whole content of the
\* file, and has left the journal as it was; the script's two entries give
\* the two lines "1: Today was a great day!" and "2: I made a new friend
\* today"; the write is made after the journal has been printed.
C6_Saved ==
  pc = "saved"
  => /\ call.op = "saveToFile"
     /\ journal = call.this
     /\ fsCalls = << [file |-> FileName, data |-> Journal_toString(call.this),
                      ok |-> TRUE] >>
     /\ disk = [exists |-> TRUE, data |-> Journal_toString(call.this)]
     /\ (journal.entries = << "1: Today was a great day!",
                              "2: I made a new friend today" >>
           => disk.data = "1: Today was a great day!\n2: I made a new friend today")

C6_WriteFollowsPrint ==
  fsCalls' # fsCalls
  => /\ pc = "printed"
     /\ call.op = "toString"
     /\ out = << fsCalls'[1].data >>
     /\ Len(fsCalls) = 0 /\ Len(fsCalls') = 1

C6_OneWholeFileWrite == []C6_Saved /\ [][C6_WriteFollowsPrint]_vars

C6_Witness ==
  /\ pc = "saved"
  /\ journal.count = 2
  /\ disk.data = "1: Today was a great day!\n2: I made a new friend today"

\* C7: a failed write leaves the script in its error state, reached by the
\* one writeFileSync call of saveToFile (no retry, no catch: the script never
\* counts as saved after a failed call); the journal is as it was before the
\* call, and no statement follows.
C7_Failed ==
  /\ (pc = "error"
        => /\ call.op = "saveToFile"
           /\ journal = call.this
           /\ Len(fsCalls) = 1)
  /\ ((\E i \in 1 .. Len(fsCalls) : ~fsCalls[i].ok) <=> pc = "error")

C7_FailedWritePropagates == []C7_Failed /\ [][pc # "error"]_vars

C7_Witness ==
  /\ pc = "error"
  /\ journal.count = 2
  /\ Len(fsCalls) = 1 /\ ~fsCalls[1].ok

\* C8: Filter2.filter with a ColorSpecification(c) returns the same list, in
\* the same order, as filterByColor with c, and with a SizeSpecification(s)
\* the same as filterBySize with s; the green specification applied to
\* [Book, laptop, Surfboard] yields only Surfboard.
C8_SpecificationFilterAgrees ==
  /\ (call.op = "filter" /\ call.arg.cls = "ColorSpecification"
        => result = filterByColor(call.this, call.arg.color).ret)
  /\ (call.op = "filter" /\ call.arg.cls = "SizeSpecification"
        => result = filterBySize(call.this, call.arg.size).ret)
  /\ (call.op = "filter" /\ call.this = ScriptProducts
        /\ call.arg = ColorSpecification("green")
        => result = << surfboard >>)

C8_Witness ==
  /\ call.op = "filter"
  /\ call.this = ScriptProducts
  /\ call.arg = ColorSpecification("green")
  /\ result = << surfboard >>

====
